---- MODULE Spec2Model ----
(***************************************************************************)
(* Five independent teaching classes (Car, Smartphone, BankAccount,        *)
(* CoffeeMaker, Book).  Each source file constructs one object and calls   *)
(* its methods, so a behaviour of the model is: construct one object of    *)
(* one class, then call its methods in any order with any input.           *)
(*                                                                         *)
(*   self  the object (a record of its attributes, cls names its class)    *)
(*   call  the last call made: [name, arg]                                 *)
(*   ret   what that call returned (or raised)                             *)
(*   old   the object as it was when that call was made                    *)
(*   successes  the checkOut and returnBook calls that returned True, in   *)
(*         the order they were made                                        *)
(*                                                                         *)
(* A method is an operator from the object (and its argument) to the pair  *)
(* [self, ret] of the object after the call and the returned value.        *)
(*                                                                         *)
(* Units.  Python floats are modelled by integers: fuel and battery in     *)
(* percentage points, money in whole currency units, water in millilitres  *)
(* (the source keeps litres, 2.0 L = 2000 ml, and converts the cup table   *)
(* from ml with / 1000.0).  Bean amounts are passed in half grams so that  *)
(* int(amount) truncates.  A message built by an f-string is the tuple of  *)
(* its fixed text and the values interpolated into it.                     *)
(***************************************************************************)
EXTENDS Integers, Sequences, FiniteSets, TLC

VARIABLES self, call, ret, old, successes

vars == <<self, call, ret, old, successes>>

\* ---------------------------------------------------------------- inputs
\* how far outside 0..100 a constructor argument may lie
FuelOver == 5
BatteryOver == 5
\* largest distance, refuel amount, charge/usage amount tried
MaxDistance == 30
MaxRefuel == 20
MaxCharge == 40

FuelArgs == (0 - FuelOver)..(100 + FuelOver)
Distances == (-1)..MaxDistance
RefuelAmounts == (-1)..MaxRefuel
BatteryArgs == (0 - BatteryOver)..(100 + BatteryOver)
ChargeAmounts == (-1)..MaxCharge
\* unlock(): no pin, the stored pin, a wrong pin
Pins == {<<>>, <<"1234">>, <<"0000">>}

\* BankAccount: balances stay within -MaxBalance..MaxBalance; the interest
\* rate is a whole multiple of the balance so that balance * rate is exact
MaxBalance == 12
MaxInitialBalance == 4
MaxAmount == 3
InitialBalances == (-1)..MaxInitialBalance
InterestRates == {-2, 0, 1}
MoneyAmounts == (-1)..MaxAmount

\* CoffeeMaker: water in ml, beans in g; addBeans amounts in half grams.
\* Constructor arguments below zero, within and above the capacity; amounts
\* below zero, zero, fitting and overflowing (1 is 0.5 g, which int() cuts
\* to 0 g)
WaterArgs == {-500, 0, 1500, 2040}
BeansArgs == {-10, 0, 152, 520}
CupSizeArgs == {"small", "medium", "large", "huge"}
WaterAmounts == {-500, 0, 540, 2500}
BeanAmountsHalf == {-20, 0, 1, 200, 1200}

\* Book
MaxPageCount == 3
\* longest history of successful checkOut / returnBook calls kept
MaxSuccesses == 5
PageCounts == (-1)..MaxPageCount

\* --------------------------------------------------------------- builtins
min(a, b) == IF a <= b THEN a ELSE b

max(a, b) == IF a >= b THEN a ELSE b

\* raise ValueError(...)
ValueError == [raises |-> "ValueError"]

\* ==================================================================== Car
Car(make, model, year, color, fuel_level, is_engine_on) ==
    [cls |-> "Car", make |-> make, model |-> model, year |-> year,
     color |-> color, fuel_level |-> fuel_level,
     is_engine_on |-> is_engine_on]

start_engine(s) ==
    IF s.fuel_level > 0
    THEN [self |-> [s EXCEPT !.is_engine_on = TRUE],
          ret |-> <<"Engine started successfully.">>]
    ELSE [self |-> s, ret |-> <<"Cannot start engine: insufficient fuel.">>]

stop_engine(s) ==
    [self |-> [s EXCEPT !.is_engine_on = FALSE], ret |-> <<"Engine stopped.">>]

drive_rejecting(s, distance) ==
    IF ~s.is_engine_on
    THEN [self |-> s, ret |-> <<"Cannot drive: engine is not running. Please start the engine first.">>]
    ELSE IF distance <= 0
    THEN [self |-> s, ret |-> <<"Invalid distance. Please enter a positive value.">>]
    ELSE IF s.fuel_level < distance * 1
    THEN [self |-> s, ret |-> <<"Ran out of fuel">>]
    ELSE [self |-> [s EXCEPT !.fuel_level = s.fuel_level - distance * 1],
          ret |-> <<"Drove", distance, s.fuel_level - distance * 1>>]

drive(s, distance) ==
    IF ~s.is_engine_on
    THEN [self |-> s, ret |-> <<"Cannot drive: engine is not running. Please start the engine first.">>]
    ELSE IF distance <= 0
    THEN [self |-> s, ret |-> <<"Invalid distance. Please enter a positive value.">>]
    ELSE LET fuel_consumption == distance * 1 IN
         IF s.fuel_level < fuel_consumption
         THEN LET actual_distance == s.fuel_level IN
              [self |-> [s EXCEPT !.fuel_level = 0, !.is_engine_on = FALSE],
               ret |-> <<"Ran out of fuel after driving", actual_distance,
                         "Engine stopped. Fuel level:", 0>>]
         ELSE [self |-> [s EXCEPT !.fuel_level = s.fuel_level - fuel_consumption],
               ret |-> <<"Drove", distance, "Remaining fuel:",
                         s.fuel_level - fuel_consumption>>]

refuel(s, amount) ==
    IF amount <= 0
    THEN [self |-> s, ret |-> <<"Invalid fuel amount. Please enter a positive value.">>]
    ELSE [self |-> [s EXCEPT !.fuel_level = min(100, s.fuel_level + amount)],
          ret |-> <<"Refueled. Current fuel level:",
                    min(100, s.fuel_level + amount)>>]

\* ============================================================= Smartphone
Smartphone(brand, model, storageCapacity, batteryLevel) ==
    [cls |-> "Smartphone", brand |-> brand, model |-> model,
     storageCapacity |-> storageCapacity,
     batteryLevel |-> max(0, min(100, batteryLevel)),
     isLocked |-> TRUE, correctPin |-> <<"1234">>]

unlock_any_pin(s, pin) ==
    [self |-> [s EXCEPT !.isLocked = FALSE], ret |-> TRUE]

unlock(s, pin) ==
    LET p == IF pin = <<>> THEN <<"1234">> ELSE pin IN
    IF p = s.correctPin
    THEN [self |-> [s EXCEPT !.isLocked = FALSE], ret |-> TRUE]
    ELSE [self |-> s, ret |-> FALSE]

lock(s) == [self |-> [s EXCEPT !.isLocked = TRUE], ret |-> TRUE]

charge_unclamped(s, amount) ==
    IF amount < 0
    THEN [self |-> s, ret |-> ValueError]
    ELSE [self |-> [s EXCEPT !.batteryLevel = s.batteryLevel + amount],
          ret |-> s.batteryLevel + amount]

charge(s, amount) ==
    IF amount < 0
    THEN [self |-> s, ret |-> ValueError]
    ELSE [self |-> [s EXCEPT !.batteryLevel = min(100, s.batteryLevel + amount)],
          ret |-> min(100, s.batteryLevel + amount)]

useBattery_unclamped(s, amount) ==
    IF amount < 0
    THEN [self |-> s, ret |-> ValueError]
    ELSE [self |-> [s EXCEPT !.batteryLevel = s.batteryLevel - amount],
          ret |-> s.batteryLevel - amount]

useBattery(s, amount) ==
    IF amount < 0
    THEN [self |-> s, ret |-> ValueError]
    ELSE [self |-> [s EXCEPT !.batteryLevel = max(0, s.batteryLevel - amount)],
          ret |-> max(0, s.batteryLevel - amount)]

getBatteryStatus(s) ==
    IF s.batteryLevel > 80 THEN "Excellent"
    ELSE IF s.batteryLevel > 50 THEN "Good"
    ELSE IF s.batteryLevel > 20 THEN "Low"
    ELSE IF s.batteryLevel > 10 THEN "Critical"
    ELSE "Very Low"

Smartphone_str(s) ==
    LET lock_status == IF s.isLocked THEN "Locked" ELSE "Unlocked"
        battery_status == getBatteryStatus(s) IN
    [brand |-> s.brand, model |-> s.model,
     storageCapacity |-> s.storageCapacity, batteryLevel |-> s.batteryLevel,
     battery_status |-> battery_status, lock_status |-> lock_status]

\* ============================================================ BankAccount
BankAccount(account_number, account_holder, initial_balance, interest_rate) ==
    [cls |-> "BankAccount", accountNumber |-> account_number,
     balance |-> initial_balance, accountHolder |-> account_holder,
     interestRate |-> interest_rate, isActive |-> TRUE]

deposit_when_closed(s, amount) ==
    IF amount <= 0
    THEN [self |-> s, ret |-> FALSE]
    ELSE [self |-> [s EXCEPT !.balance = s.balance + amount], ret |-> TRUE]

deposit(s, amount) ==
    IF ~s.isActive
    THEN [self |-> s, ret |-> FALSE]
    ELSE IF amount <= 0
    THEN [self |-> s, ret |-> FALSE]
    ELSE [self |-> [s EXCEPT !.balance = s.balance + amount], ret |-> TRUE]

withdraw_overdrawing(s, amount) ==
    IF ~s.isActive
    THEN [self |-> s, ret |-> FALSE]
    ELSE IF amount <= 0
    THEN [self |-> s, ret |-> FALSE]
    ELSE [self |-> [s EXCEPT !.balance = s.balance - amount], ret |-> TRUE]

withdraw(s, amount) ==
    IF ~s.isActive
    THEN [self |-> s, ret |-> FALSE]
    ELSE IF amount <= 0
    THEN [self |-> s, ret |-> FALSE]
    ELSE IF amount > s.balance
    THEN [self |-> s, ret |-> FALSE]
    ELSE [self |-> [s EXCEPT !.balance = s.balance - amount], ret |-> TRUE]

\* returns None
calculateInterest(s) ==
    IF ~s.isActive
    THEN [self |-> s, ret |-> <<>>]
    ELSE LET interest == s.balance * s.interestRate IN
         [self |-> [s EXCEPT !.balance = s.balance + interest], ret |-> <<>>]

closeAccount(s) == [self |-> [s EXCEPT !.isActive = FALSE], ret |-> <<>>]

getBalance(s) == s.balance

\* ============================================================ CoffeeMaker
\* cup size specifications (water in ml, beans in grams)
CUP_SIZES ==
    [small |-> [water |-> 120, beans |-> 8],
     medium |-> [water |-> 180, beans |-> 12],
     large |-> [water |-> 240, beans |-> 16]]

CoffeeMaker(brand, waterLevel, coffeeBeans, cupSize) ==
    [cls |-> "CoffeeMaker", brand |-> brand,
     waterLevel |-> max(0, waterLevel),
     coffeeBeans |-> max(0, coffeeBeans),
     isOn |-> FALSE,
     cupSize |-> IF cupSize \in DOMAIN CUP_SIZES THEN cupSize ELSE "medium",
     maxWaterCapacity |-> 2000,
     maxBeansCapacity |-> 500]

turnOn_toggling(s) == [self |-> [s EXCEPT !.isOn = ~s.isOn], ret |-> TRUE]

turnOn(s) ==
    IF ~s.isOn
    THEN [self |-> [s EXCEPT !.isOn = TRUE], ret |-> TRUE]
    ELSE [self |-> s, ret |-> FALSE]

turnOff(s) ==
    IF s.isOn
    THEN [self |-> [s EXCEPT !.isOn = FALSE], ret |-> TRUE]
    ELSE [self |-> s, ret |-> FALSE]

brew_keeping_beans(s) ==
    IF ~s.isOn
    THEN [self |-> s,
          ret |-> [success |-> FALSE, message |-> <<"Coffee maker is turned off">>]]
    ELSE LET required_water == CUP_SIZES[s.cupSize].water
             required_beans == CUP_SIZES[s.cupSize].beans IN
         IF s.waterLevel < required_water \/ s.coffeeBeans < required_beans
         THEN [self |-> s,
               ret |-> [success |-> FALSE, message |-> <<"Not enough">>]]
         ELSE [self |-> [s EXCEPT !.waterLevel = s.waterLevel - required_water],
               ret |-> [success |-> TRUE,
                        message |-> <<"Successfully brewed", s.cupSize,
                                      s.waterLevel - required_water,
                                      s.coffeeBeans>>]]

brew(s) ==
    IF ~s.isOn
    THEN [self |-> s,
          ret |-> [success |-> FALSE, message |-> <<"Coffee maker is turned off">>]]
    ELSE IF s.cupSize \notin DOMAIN CUP_SIZES
    THEN [self |-> s,
          ret |-> [success |-> FALSE, message |-> <<"Invalid cup size:", s.cupSize>>]]
    ELSE LET required_water == CUP_SIZES[s.cupSize].water
             required_beans == CUP_SIZES[s.cupSize].beans IN
         IF s.waterLevel < required_water
         THEN [self |-> s,
               ret |-> [success |-> FALSE,
                        message |-> <<"Not enough water. Need", required_water,
                                      "have", s.waterLevel>>]]
         ELSE IF s.coffeeBeans < required_beans
         THEN [self |-> s,
               ret |-> [success |-> FALSE,
                        message |-> <<"Not enough coffee beans. Need",
                                      required_beans, "have", s.coffeeBeans>>]]
         ELSE [self |-> [s EXCEPT !.waterLevel = s.waterLevel - required_water,
                                  !.coffeeBeans = s.coffeeBeans - required_beans],
               ret |-> [success |-> TRUE,
                        message |-> <<"Successfully brewed", s.cupSize,
                                      s.waterLevel - required_water,
                                      s.coffeeBeans - required_beans>>]]

refillWater(s, amount) ==
    IF amount <= 0
    THEN [self |-> s,
          ret |-> [success |-> FALSE,
                   message |-> <<"Water amount must be a positive number">>]]
    ELSE IF s.waterLevel + amount > s.maxWaterCapacity
    THEN LET overflow == (s.waterLevel + amount) - s.maxWaterCapacity IN
         [self |-> [s EXCEPT !.waterLevel = s.maxWaterCapacity],
          ret |-> [success |-> FALSE,
                   message |-> <<"Water tank full. Added", amount - overflow,
                                 overflow>>]]
    ELSE [self |-> [s EXCEPT !.waterLevel = s.waterLevel + amount],
          ret |-> [success |-> TRUE,
                   message |-> <<"Added", amount, "Current level:",
                                 s.waterLevel + amount>>]]

\* int(amount) of a positive amount given in half grams
int(half) == half \div 2

addBeans(s, half) ==
    IF half <= 0
    THEN [self |-> s,
          ret |-> [success |-> FALSE,
                   message |-> <<"Bean amount must be a positive number">>]]
    ELSE LET amount == int(half) IN
         IF s.coffeeBeans + amount > s.maxBeansCapacity
         THEN LET overflow == (s.coffeeBeans + amount) - s.maxBeansCapacity IN
              [self |-> [s EXCEPT !.coffeeBeans = s.maxBeansCapacity],
               ret |-> [success |-> FALSE,
                        message |-> <<"Bean storage full. Added",
                                      amount - overflow, overflow>>]]
         ELSE [self |-> [s EXCEPT !.coffeeBeans = s.coffeeBeans + amount],
               ret |-> [success |-> TRUE,
                        message |-> <<"Added", amount, "Current amount:",
                                      s.coffeeBeans + amount>>]]

setCupSize(s, size) ==
    IF size \in DOMAIN CUP_SIZES
    THEN [self |-> [s EXCEPT !.cupSize = size], ret |-> TRUE]
    ELSE [self |-> s, ret |-> FALSE]

canBrew(s) ==
    IF ~s.isOn \/ s.cupSize \notin DOMAIN CUP_SIZES
    THEN FALSE
    ELSE LET required_water == CUP_SIZES[s.cupSize].water
             required_beans == CUP_SIZES[s.cupSize].beans IN
         s.waterLevel >= required_water /\ s.coffeeBeans >= required_beans

CoffeeMaker_str(s) ==
    LET status == IF s.isOn THEN "ON" ELSE "OFF"
        can_brew == IF canBrew(s) THEN "Ready" ELSE "Not Ready" IN
    [brand |-> s.brand, status |-> status, waterLevel |-> s.waterLevel,
     coffeeBeans |-> s.coffeeBeans, cupSize |-> s.cupSize,
     can_brew |-> can_brew]

\* =================================================================== Book
Book(title, author, isbn, pageCount) ==
    [cls |-> "Book", title |-> title, author |-> author, isbn |-> isbn,
     pageCount |-> pageCount, isCheckedOut |-> FALSE]

checkOut_again(s) == [self |-> [s EXCEPT !.isCheckedOut = TRUE], ret |-> TRUE]

checkOut(s) ==
    IF ~s.isCheckedOut
    THEN [self |-> [s EXCEPT !.isCheckedOut = TRUE], ret |-> TRUE]
    ELSE [self |-> s, ret |-> FALSE]

returnBook(s) ==
    IF s.isCheckedOut
    THEN [self |-> [s EXCEPT !.isCheckedOut = FALSE], ret |-> TRUE]
    ELSE [self |-> s, ret |-> FALSE]

\* returns None, or raises
setPageCount(s, newCount) ==
    IF newCount <= 0
    THEN [self |-> s, ret |-> ValueError]
    ELSE [self |-> [s EXCEPT !.pageCount = newCount], ret |-> <<>>]

isAvailable(s) == ~s.isCheckedOut

Book_str(s) ==
    LET status == IF isAvailable(s) THEN "Available" ELSE "Checked Out" IN
    [title |-> s.title, author |-> s.author, isbn |-> s.isbn,
     pageCount |-> s.pageCount, status |-> status]

\* ================================================================ program
\* the object is constructed: obj is what the constructor built from arg
Construct(obj, arg) ==
    /\ self = obj
    /\ call = [name |-> "__init__", arg |-> arg]
    /\ ret = <<>>
    /\ old = obj
    /\ successes = <<>>

\* one method call: r is the method applied to self
Invoke(name, arg, r) ==
    /\ call' = [name |-> name, arg |-> arg]
    /\ old' = self
    /\ self' = r.self
    /\ ret' = r.ret
    /\ successes' = IF name \in {"checkOut", "returnBook"} /\ r.ret = TRUE
                     THEN Append(successes, name)
                     ELSE successes

Init_Car ==
    \E f \in FuelArgs, e \in BOOLEAN :
        Construct(Car("Toyota", "Camry", 2023, "Blue", f, e), <<f, e>>)

Init_Smartphone ==
    \E b \in BatteryArgs :
        Construct(Smartphone("Apple", "iPhone 14", 256, b), b)

Init_BankAccount ==
    \E b \in InitialBalances, r \in InterestRates :
        Construct(BankAccount("ACC001", "John Doe", b, r), <<b, r>>)

Init_CoffeeMaker ==
    \E w \in WaterArgs, b \in BeansArgs, c \in CupSizeArgs :
        Construct(CoffeeMaker("Keurig", w, b, c), <<w, b, c>>)

Init_Book ==
    \E n \in 1..MaxPageCount :
        Construct(Book("The Great Gatsby", "F. Scott Fitzgerald",
                       "978-0-7432-7356-5", n), n)

Init ==
    \/ Init_Car
    \/ Init_Smartphone
    \/ Init_BankAccount
    \/ Init_CoffeeMaker
    \/ Init_Book

Car_start_engine ==
    self.cls = "Car" /\ Invoke("start_engine", <<>>, start_engine(self))

Car_stop_engine ==
    self.cls = "Car" /\ Invoke("stop_engine", <<>>, stop_engine(self))

Car_drive ==
    \E d \in Distances : self.cls = "Car" /\ Invoke("drive", d, drive(self, d))

Car_refuel ==
    \E a \in RefuelAmounts :
        self.cls = "Car" /\ Invoke("refuel", a, refuel(self, a))

Smartphone_unlock ==
    \E p \in Pins :
        self.cls = "Smartphone" /\ Invoke("unlock", p, unlock(self, p))

Smartphone_lock ==
    self.cls = "Smartphone" /\ Invoke("lock", <<>>, lock(self))

Smartphone_charge ==
    \E a \in ChargeAmounts :
        self.cls = "Smartphone" /\ Invoke("charge", a, charge(self, a))

Smartphone_useBattery ==
    \E a \in ChargeAmounts :
        self.cls = "Smartphone" /\ Invoke("useBattery", a, useBattery(self, a))

\* balances are unbounded in the source; the model stops growing them at
\* MaxBalance
InRange(r) == r.self.balance <= MaxBalance /\ r.self.balance >= 0 - MaxBalance

BankAccount_deposit ==
    \E a \in MoneyAmounts :
        /\ self.cls = "BankAccount"
        /\ InRange(deposit(self, a))
        /\ Invoke("deposit", a, deposit(self, a))

BankAccount_withdraw ==
    \E a \in MoneyAmounts :
        /\ self.cls = "BankAccount"
        /\ InRange(withdraw(self, a))
        /\ Invoke("withdraw", a, withdraw(self, a))

BankAccount_calculateInterest ==
    /\ self.cls = "BankAccount"
    /\ InRange(calculateInterest(self))
    /\ Invoke("calculateInterest", <<>>, calculateInterest(self))

BankAccount_closeAccount ==
    self.cls = "BankAccount" /\ Invoke("closeAccount", <<>>, closeAccount(self))

CoffeeMaker_turnOn ==
    self.cls = "CoffeeMaker" /\ Invoke("turnOn", <<>>, turnOn(self))

CoffeeMaker_turnOff ==
    self.cls = "CoffeeMaker" /\ Invoke("turnOff", <<>>, turnOff(self))

CoffeeMaker_brew ==
    self.cls = "CoffeeMaker" /\ Invoke("brew", <<>>, brew(self))

CoffeeMaker_refillWater ==
    \E a \in WaterAmounts :
        self.cls = "CoffeeMaker" /\ Invoke("refillWater", a, refillWater(self, a))

CoffeeMaker_addBeans ==
    \E h \in BeanAmountsHalf :
        self.cls = "CoffeeMaker" /\ Invoke("addBeans", h, addBeans(self, h))

CoffeeMaker_setCupSize ==
    \E c \in CupSizeArgs :
        self.cls = "CoffeeMaker" /\ Invoke("setCupSize", c, setCupSize(self, c))

\* the history is unbounded; the model stops lending at MaxSuccesses
Book_checkOut ==
    /\ self.cls = "Book"
    /\ Len(successes) < MaxSuccesses
    /\ Invoke("checkOut", <<>>, checkOut(self))

Book_returnBook ==
    /\ self.cls = "Book"
    /\ Len(successes) < MaxSuccesses
    /\ Invoke("returnBook", <<>>, returnBook(self))

Book_setPageCount ==
    \E n \in PageCounts :
        self.cls = "Book" /\ Invoke("setPageCount", n, setPageCount(self, n))

Next ==
    \/ Car_start_engine
    \/ Car_stop_engine
    \/ Car_drive
    \/ Car_refuel
    \/ Smartphone_unlock
    \/ Smartphone_lock
    \/ Smartphone_charge
    \/ Smartphone_useBattery
    \/ BankAccount_deposit
    \/ BankAccount_withdraw
    \/ BankAccount_calculateInterest
    \/ BankAccount_closeAccount
    \/ CoffeeMaker_turnOn
    \/ CoffeeMaker_turnOff
    \/ CoffeeMaker_brew
    \/ CoffeeMaker_refillWater
    \/ CoffeeMaker_addBeans
    \/ CoffeeMaker_setCupSize
    \/ Book_checkOut
    \/ Book_returnBook
    \/ Book_setPageCount

Spec == Init /\ [][Next]_vars

\* a car constructed with the engine off (the default), and its methods
Init_CarEngineOff ==
    \E f \in FuelArgs :
        Construct(Car("Toyota", "Camry", 2023, "Blue", f, FALSE), <<f, FALSE>>)

Next_Car ==
    \/ Car_start_engine
    \/ Car_stop_engine
    \/ Car_drive
    \/ Car_refuel

SpecCarEngineOff == Init_CarEngineOff /\ [][Next_Car]_vars

\* ================================================================= claims

\* C1: for every Car, however constructed and after every sequence of
\* start_engine, stop_engine, drive and refuel calls, fuel_level lies in
\* 0..100.
C1_FuelInRange ==
    self.cls = "Car" => (0 <= self.fuel_level /\ self.fuel_level <= 100)

\* C2: for every Smartphone, whatever batteryLevel it was constructed with
\* and after every sequence of charge, useBattery, lock and unlock calls with
\* non-negative amounts, batteryLevel lies in 0..100.
C2_BatteryInRange ==
    self.cls = "Smartphone"
        => (0 <= self.batteryLevel /\ self.batteryLevel <= 100)

\* a charge that had to be clamped
C2_Witness ==
    /\ self.cls = "Smartphone"
    /\ call.name = "charge"
    /\ call.arg > 0
    /\ old.batteryLevel + call.arg > 100
    /\ self.batteryLevel = 100

\* C3: for every CoffeeMaker, however constructed and after every sequence of
\* its mutator calls, waterLevel is within 0..maxWaterCapacity and coffeeBeans
\* within 0..maxBeansCapacity.
C3_LevelsInRange ==
    self.cls = "CoffeeMaker"
        => /\ 0 <= self.waterLevel
           /\ self.waterLevel <= self.maxWaterCapacity
           /\ 0 <= self.coffeeBeans
           /\ self.coffeeBeans <= self.maxBeansCapacity

\* C4: every call to deposit, charge, refuel, refillWater or addBeans leaves
\* the tracked quantity greater than or equal to its value before the call.
C4_NeverDecreases ==
    /\ call.name = "deposit" => self.balance >= old.balance
    /\ call.name = "charge" => self.batteryLevel >= old.batteryLevel
    /\ call.name = "refuel" => self.fuel_level >= old.fuel_level
    /\ call.name = "refillWater" => self.waterLevel >= old.waterLevel
    /\ call.name = "addBeans" => self.coffeeBeans >= old.coffeeBeans

\* C5: withdraw(amount) with amount greater than the balance returns False
\* and leaves balance and isActive unchanged; every withdraw that returns
\* True leaves balance >= 0.
C5_WithdrawGuarded ==
    call.name = "withdraw"
        => /\ call.arg > old.balance
                => /\ ret = FALSE
                   /\ self.balance = old.balance
                   /\ self.isActive = old.isActive
           /\ ret = TRUE => self.balance >= 0

\* an open account with money in it refuses a larger withdrawal
C5_Witness ==
    /\ call.name = "withdraw"
    /\ old.isActive
    /\ old.balance > 0
    /\ call.arg > old.balance
    /\ ret = FALSE

\* C6 (as claimed): a usage request larger than the available quantity is
\* rejected: useBattery(amount) with amount > batteryLevel leaves batteryLevel
\* unchanged, and drive(distance) with the engine on and distance > fuel_level
\* leaves fuel_level and is_engine_on unchanged.
C6_UsageRejected ==
    /\ (call.name = "useBattery" /\ call.arg > old.batteryLevel)
            => self.batteryLevel = old.batteryLevel
    /\ (call.name = "drive" /\ old.is_engine_on /\ call.arg > old.fuel_level)
            => /\ self.fuel_level = old.fuel_level
               /\ self.is_engine_on = old.is_engine_on

\* C6 (amended): a usage request larger than the available quantity uses up
\* what is left: useBattery(amount) with amount > batteryLevel sets
\* batteryLevel to 0, and drive(distance) with the engine on and a positive
\* distance > fuel_level sets fuel_level to 0 and turns the engine off.
C6_UsageDrains ==
    /\ (call.name = "useBattery" /\ call.arg > old.batteryLevel)
            => (self.batteryLevel = 0 /\ ret = 0)
    /\ (call.name = "drive" /\ old.is_engine_on /\ call.arg > 0
            /\ call.arg > old.fuel_level)
            => (self.fuel_level = 0 /\ ~self.is_engine_on)

\* a running car with fuel left is driven further than the fuel lasts
C6_Witness ==
    /\ call.name = "drive"
    /\ old.is_engine_on
    /\ old.fuel_level > 0
    /\ call.arg > old.fuel_level
    /\ self.fuel_level = 0
    /\ ~self.is_engine_on

\* C7: every CoffeeMaker mutator call that reports failure (brew, refillWater
\* or addBeans returning success False; turnOn, turnOff or setCupSize
\* returning False) leaves waterLevel, coffeeBeans, isOn and cupSize as they
\* were before the call.
C7_FailureChangesNothing ==
    /\ (call.name \in {"brew", "refillWater", "addBeans"} /\ ~ret.success)
            => /\ self.waterLevel = old.waterLevel
               /\ self.coffeeBeans = old.coffeeBeans
               /\ self.isOn = old.isOn
               /\ self.cupSize = old.cupSize
    /\ (call.name \in {"turnOn", "turnOff", "setCupSize"} /\ ret = FALSE)
            => /\ self.waterLevel = old.waterLevel
               /\ self.coffeeBeans = old.coffeeBeans
               /\ self.isOn = old.isOn
               /\ self.cupSize = old.cupSize

\* C8: applying the same mode-flag operation again with the same input
\* (lock, unlock(pin), turnOn, turnOff, checkOut, returnBook) leaves the
\* object as the first application left it, and the status word of __str__
\* agrees with the flag.
C8_ModeFlagIdempotent ==
    /\ call.name = "lock" => lock(self).self = self
    /\ call.name = "unlock" => unlock(self, call.arg).self = self
    /\ call.name = "turnOn" => turnOn(self).self = self
    /\ call.name = "turnOff" => turnOff(self).self = self
    /\ call.name = "checkOut" => checkOut(self).self = self
    /\ call.name = "returnBook" => returnBook(self).self = self
    /\ self.cls = "Smartphone"
            => Smartphone_str(self).lock_status
                 = (IF self.isLocked THEN "Locked" ELSE "Unlocked")
    /\ self.cls = "CoffeeMaker"
            => CoffeeMaker_str(self).status = (IF self.isOn THEN "ON" ELSE "OFF")
    /\ self.cls = "Book"
            => Book_str(self).status
                 = (IF self.isCheckedOut THEN "Checked Out" ELSE "Available")

\* turnOn called on a maker that is already on
C8_Witness ==
    /\ call.name = "turnOn"
    /\ old.isOn
    /\ self.isOn
    /\ ret = FALSE
    /\ CoffeeMaker_str(self).status = "ON"

\* C9: once closeAccount has been called the account stays closed, no later
\* deposit, withdraw, calculateInterest or closeAccount changes balance, and
\* every later deposit and withdraw returns False.
C9_ClosedIsFinal ==
    /\ call.name = "closeAccount" => ~self.isActive
    /\ (self.cls = "BankAccount" /\ call.name # "__init__" /\ ~old.isActive)
            => /\ ~self.isActive
               /\ self.balance = old.balance
               /\ call.name \in {"deposit", "withdraw"} => ret = FALSE

\* a positive deposit into a closed account
C9_Witness ==
    /\ call.name = "deposit"
    /\ ~old.isActive
    /\ call.arg > 0
    /\ ret = FALSE
    /\ self.balance = old.balance

\* C10: for every battery level b in 0..100 and non-negative amount a,
\* charge(a) sets and returns batteryLevel = min(100, b + a) and
\* useBattery(a) sets and returns batteryLevel = max(0, b - a); a phone at 85
\* after useBattery(25) is at 60 and after charge(40) from there at 100.
C10_ChargeAndUseClamp ==
    /\ (call.name = "charge" /\ call.arg >= 0)
            => /\ self.batteryLevel
                    = (IF old.batteryLevel + call.arg > 100 THEN 100
                       ELSE old.batteryLevel + call.arg)
               /\ ret = self.batteryLevel
    /\ (call.name = "useBattery" /\ call.arg >= 0)
            => /\ self.batteryLevel
                    = (IF old.batteryLevel - call.arg < 0 THEN 0
                       ELSE old.batteryLevel - call.arg)
               /\ ret = self.batteryLevel
    /\ (call.name = "useBattery" /\ call.arg = 25 /\ old.batteryLevel = 85)
            => self.batteryLevel = 60
    /\ (call.name = "charge" /\ call.arg = 40 /\ old.batteryLevel = 60)
            => self.batteryLevel = 100

\* the demo's charge(40) at battery 60
C10_Witness ==
    /\ call.name = "charge"
    /\ call.arg = 40
    /\ old.batteryLevel = 60
    /\ self.batteryLevel = 100
    /\ ret = 100

\* C11: brew() on a powered-on maker whose waterLevel and coffeeBeans are both
\* at least the selected cup size's requirement (small 120 ml / 8 g, medium
\* 180 ml / 12 g, large 240 ml / 16 g) returns success True, reduces
\* waterLevel by that water amount and coffeeBeans by that bean amount, and
\* leaves isOn and cupSize unchanged; 1.5 L with medium leaves 1.32 L.
C11_BrewDeducts ==
    \A size \in {<<"small", 120, 8>>, <<"medium", 180, 12>>, <<"large", 240, 16>>} :
        (/\ call.name = "brew"
         /\ old.isOn
         /\ old.cupSize = size[1]
         /\ old.waterLevel >= size[2]
         /\ old.coffeeBeans >= size[3])
            => /\ ret.success = TRUE
               /\ self.waterLevel = old.waterLevel - size[2]
               /\ self.coffeeBeans = old.coffeeBeans - size[3]
               /\ self.isOn = old.isOn
               /\ self.cupSize = old.cupSize
               /\ (size[1] = "medium" /\ old.waterLevel = 1500)
                      => self.waterLevel = 1320

\* the demo's medium brew from 1.5 L
C11_Witness ==
    /\ call.name = "brew"
    /\ old.isOn
    /\ old.cupSize = "medium"
    /\ old.waterLevel = 1500
    /\ old.coffeeBeans >= 12
    /\ ret.success = TRUE
    /\ self.waterLevel = 1320

\* C12: in every state reached by start_engine, stop_engine, drive and refuel
\* calls on a car constructed with the engine off, is_engine_on implies
\* fuel_level > 0 (when the fuel runs out the engine is off).
C12_EngineOnHasFuel ==
    (self.cls = "Car" /\ self.is_engine_on) => self.fuel_level > 0

\* C13 (as claimed): the phone goes from locked to unlocked only in an unlock
\* call whose caller supplied a pin equal to the stored PIN, and any other
\* unlock call returns False and leaves isLocked unchanged.
C13_UnlockNeedsSuppliedPin ==
    /\ (self.cls = "Smartphone" /\ old.isLocked /\ ~self.isLocked)
            => (call.name = "unlock" /\ call.arg = old.correctPin)
    /\ (call.name = "unlock" /\ call.arg # old.correctPin)
            => (ret = FALSE /\ self.isLocked = old.isLocked)

\* C13 (amended): the phone goes from locked to unlocked only in an unlock
\* call whose pin equals the stored PIN, where a call that supplies no pin
\* counts as supplying the default "1234"; such a call returns True and
\* leaves the phone unlocked, and any other unlock call returns False and
\* leaves isLocked unchanged.
C13_UnlockNeedsPinOrDefault ==
    /\ (self.cls = "Smartphone" /\ old.isLocked /\ ~self.isLocked)
            => /\ call.name = "unlock"
               /\ \/ call.arg = old.correctPin
                  \/ (call.arg = <<>> /\ old.correctPin = <<"1234">>)
    /\ (/\ call.name = "unlock"
        /\ call.arg # old.correctPin
        /\ ~(call.arg = <<>> /\ old.correctPin = <<"1234">>))
            => (ret = FALSE /\ self.isLocked = old.isLocked)
    /\ (/\ call.name = "unlock"
        /\ \/ call.arg = old.correctPin
           \/ (call.arg = <<>> /\ old.correctPin = <<"1234">>))
            => (ret = TRUE /\ ~self.isLocked)

\* a locked phone is unlocked by a call that supplies no pin
C13_Witness ==
    /\ call.name = "unlock"
    /\ call.arg = <<>>
    /\ old.isLocked
    /\ ~self.isLocked
    /\ ret = TRUE

\* C14: checkOut returns True exactly when the book was available and
\* returnBook returns True exactly when it was checked out, so the successful
\* calls strictly alternate starting with a checkOut; a failed call changes
\* nothing; isAvailable() always equals not isCheckedOut.
C14_CheckOutReturnAlternate ==
    /\ call.name = "checkOut" => (ret = TRUE <=> ~old.isCheckedOut)
    /\ call.name = "returnBook" => (ret = TRUE <=> old.isCheckedOut)
    /\ \A i \in 1..Len(successes) :
           successes[i] = (IF i % 2 = 1 THEN "checkOut" ELSE "returnBook")
    /\ (call.name \in {"checkOut", "returnBook"} /\ ret = FALSE) => self = old
    /\ self.cls = "Book" => (isAvailable(self) <=> ~self.isCheckedOut)

\* after checkOut, returnBook, checkOut have succeeded, a further checkOut
\* fails
C14_Witness ==
    /\ successes = <<"checkOut", "returnBook", "checkOut">>
    /\ call.name = "checkOut"
    /\ ret = FALSE
    /\ self.isCheckedOut
    /\ ~isAvailable(self)

====
